---------------------------- MODULE Spec2Model ----------------------------
(***************************************************************************)
(* A model of the OpenFloor GitHub agent: GitHubAgent.processEnvelope, its *)
(* utterance pipeline (_handleTechQuery, _isTechQuery, _searchGitHub) and  *)
(* the shared rate limiter (_rateLimit), as run by the Express server that *)
(* owns one agent instance for all requests.                               *)
(*                                                                         *)
(* Strings that the code inspects (token values, keywords) are sequences   *)
(* of one-character strings.  An optional value (a field that may be       *)
(* undefined) is a sequence of length 0 or 1.  Time is in milliseconds.    *)
(***************************************************************************)
EXTENDS Integers, Sequences, FiniteSets, TLC

\* ----------------------------------------------------------------- bounds
\* Concurrent HTTP requests (processEnvelope calls) in the concurrent runs.
MaxCalls == 2
\* Events per inbound envelope.
MaxEvents == 2
\* Items of a search response, drawn freely from RepoPool.
MaxItems == 4
\* Length of a run of one repository in the responses made of two runs.
MaxRun == 7
\* Characters of a query drawn freely from QueryChars.
MaxQueryLen == 3
\* Clock ticks (of half the rate-limit delay) after which time only advances
\* while a timer is still pending.
MaxTicks == 1

\* ------------------------------------------------------ program constants
rateLimitDelay == 2000

speakerUri == "tag:openfloor-research.com,2025:github-agent"
serviceUrl == "http://localhost:8080"

NeedNameText == "I need a technology or framework name to research on GitHub!"
DomainText == "I specialize in technology trends."
ApologyText == "I encountered an error while searching GitHub."
TimeoutText == "Request timeout - GitHub may be experiencing high load."
NoReposText == "No relevant repositories found."
ReportText == "GitHub Technology Trends"
ManifestText == "servicingManifests"

techIndicators ==
    << <<"t","e","c","h","n","o","l","o","g","y">>,
       <<"f","r","a","m","e","w","o","r","k">>,
       <<"l","i","b","r","a","r","y">>,
       <<"s","o","f","t","w","a","r","e">>,
       <<"p","r","o","g","r","a","m","m","i","n","g">>,
       <<"d","e","v","e","l","o","p","m","e","n","t">>,
       <<"d","e","v","e","l","o","p","e","r">>,
       <<"c","o","d","e">>,
       <<"g","i","t","h","u","b">>,
       <<"o","p","e","n"," ","s","o","u","r","c","e">>,
       <<"j","a","v","a","s","c","r","i","p","t">>,
       <<"p","y","t","h","o","n">>,
       <<"r","e","a","c","t">>,
       <<"n","o","d","e","j","s">>,
       <<"d","j","a","n","g","o">>,
       <<"f","l","a","s","k">>,
       <<"v","u","e">>,
       <<"a","n","g","u","l","a","r">>,
       <<"t","y","p","e","s","c","r","i","p","t">>,
       <<"r","u","s","t">>,
       <<"g","o">>,
       <<"k","o","t","l","i","n">>,
       <<"a","d","o","p","t","i","o","n">>,
       <<"p","o","p","u","l","a","r">>,
       <<"t","r","e","n","d","i","n","g">>,
       <<"t","o","o","l","s">>,
       <<"s","t","a","c","k">> >>

\* ------------------------------------------------------- optional values
None == << >>
Some(x) == << x >>

\* ---------------------------------------------------------------- strings
UpperChars ==
    <<"A","B","C","D","E","F","G","H","I","J","K","L","M",
      "N","O","P","Q","R","S","T","U","V","W","X","Y","Z">>
LowerChars ==
    <<"a","b","c","d","e","f","g","h","i","j","k","l","m",
      "n","o","p","q","r","s","t","u","v","w","x","y","z">>

\* String.prototype.toLowerCase, one character.
ToLowerChar(ch) ==
    IF \E i \in 1..Len(UpperChars) : UpperChars[i] = ch
    THEN LowerChars[CHOOSE i \in 1..Len(UpperChars) : UpperChars[i] = ch]
    ELSE ch

\* ToLowerCase that leaves the string as it is.
KeepCase(s) == s

\* String.prototype.toLowerCase.
ToLowerCase(s) == [i \in 1..Len(s) |-> ToLowerChar(s[i])]

\* String.prototype.includes: k occurs in s as a contiguous substring.
Includes(s, k) ==
    \E i \in 0..(Len(s) - Len(k)) : SubSeq(s, i + 1, i + Len(k)) = k

RECURSIVE Join(_)
\* Array.prototype.join(''): undefined elements contribute the empty string.
Join(values) ==
    IF values = << >> THEN << >>
    ELSE (IF Head(values) = None THEN << >> ELSE Head(values)[1])
         \o Join(Tail(values))

\* _isTechQuery: some keyword is a substring of the lower-cased query.
IsTechQuery(query) ==
    LET queryLower == ToLowerCase(query)
    IN  \E n \in 1..Len(techIndicators) : Includes(queryLower, techIndicators[n])

\* ------------------------------------------------------------ input data
\* A token of dialogEvent.features.text.tokens: null, or an object whose
\* value is a string or undefined.
NullToken == None
Tok(chars) == Some([value |-> Some(chars)])
TokNoValue == Some([value |-> None])

\* tokens: an array of tokens, or (a malformed payload) a value that has a
\* length but is no array.
Arr(elems) == [isArray |-> TRUE, elems |-> elems]
NotArr(elems) == [isArray |-> FALSE, elems |-> elems]

TokRust == Arr(<< Tok(<<"R","u">>), Tok(<<"s","t">>) >>)
TokTrending ==
    Arr(<< Tok(<<"T","r","e","n","d","i","n","g"," ","J","S"," ","t","o","o","l","s">>) >>)
TokCooking ==
    Arr(<< Tok(<<"c","o","o","k","i","n","g">>), Tok(<<" ","r","e","c","i","p","e","s">>) >>)
TokUndefinedValue == Arr(<< TokNoValue >>)
TokEmpty == Arr(<< >>)
TokNull == Arr(<< Tok(<<"g","o">>), NullToken >>)
TokString == NotArr(<< Tok(<<"g","o">>) >>)

\* event.parameters down to tokens; every level may be missing.
WithTokens(t) ==
    Some([dialogEvent |-> Some([features |-> Some([text |-> Some([tokens |-> Some(t)])])])])
NoTokensField ==
    Some([dialogEvent |-> Some([features |-> Some([text |-> Some([tokens |-> None])])])])
NoTextField == Some([dialogEvent |-> Some([features |-> Some([text |-> None])])])
NoFeaturesField == Some([dialogEvent |-> Some([features |-> None])])
NoDialogEvent == Some([dialogEvent |-> None])
NoParameters == None

UtteranceParameters ==
    { NoParameters, NoDialogEvent, NoFeaturesField, NoTextField, NoTokensField }
    \cup { WithTokens(t) : t \in { TokEmpty, TokNull, TokString, TokUndefinedValue,
                                   TokCooking, TokRust, TokTrending } }

OtherUri == "tag:example.com,2025:other-agent"
OtherUrl == "http://other.example"

To(spk, url) == Some([speakerUri |-> spk, serviceUrl |-> url])
ToMeBySpeaker == To(Some(speakerUri), None)
ToMeByService == To(Some(OtherUri), Some(serviceUrl))
ToOther == To(Some(OtherUri), Some(OtherUrl))
ToNobody == To(None, None)

Event(type, to, parameters) ==
    [eventType |-> type, to |-> to, parameters |-> parameters]

\* The events an inbound envelope is built from: every payload shape as a
\* broadcast utterance, every addressing shape for an utterance and for a
\* manifest request, and an event of a type the agent does not handle.
EventPool ==
    { Event("utterance", None, p) : p \in UtteranceParameters }
    \cup { Event(ty, None, NoParameters) : ty \in {"getManifests", "invite"} }
    \cup { Event(ty, to, IF ty = "utterance" THEN WithTokens(TokRust) ELSE NoParameters) :
              ty \in {"utterance", "getManifests"},
              to \in {ToMeBySpeaker, ToMeByService, ToOther, ToNobody} }
    \cup { Event("invite", ToMeBySpeaker, NoParameters) }

\* The events of the concurrent runs: a search and a manifest request.
SearchPool ==
    { Event("utterance", None, WithTokens(TokRust)),
      Event("getManifests", ToMeBySpeaker, NoParameters) }

Headers ==
    { [version |-> "1.0.0", id |-> "conv-1", sender |-> "tag:example.com,2025:alice"],
      [version |-> "1.1.0", id |-> "conv-2", sender |-> "tag:example.com,2025:bob"] }

Envelope(h, events) ==
    [schema |-> [version |-> h.version],
     conversation |-> [id |-> h.id],
     sender |-> [speakerUri |-> h.sender],
     events |-> events]

\* The header of the concurrent runs.
SearchHeaders == { CHOOSE h \in Headers : TRUE }

\* -------------------------------------------------------------- responses
\* What the awaited fetch (and response.json()) delivers: a response with
\* its ok flag and the items of its body, or a rejection.  A rejection is an
\* Error; cause says whether the transport timed out, msgHasTimeout whether
\* the Error's message contains the word 'timeout'.
Response(ok, items) ==
    [kind |-> "response", ok |-> ok, items |-> items,
     cause |-> "none", msgHasTimeout |-> FALSE]
Rejection(cause, msgHasTimeout) ==
    [kind |-> "reject", ok |-> FALSE, items |-> None,
     cause |-> cause, msgHasTimeout |-> msgHasTimeout]

FetchOutcomes ==
    { Response(TRUE, items) : items \in { None, Some(<< >>), Some(<<"repo">>) } }
    \cup { Response(FALSE, None) }
    \cup { Rejection(cause, m) : cause \in {"timeout", "other"}, m \in BOOLEAN }

\* ------------------------------------------------------------------ state
Calls == 1..MaxCalls
TickMs == rateLimitDelay \div 2
\* Date.now() counts from the epoch while lastRequestTime starts at 0: the
\* first request of the process never waits.
StartTime == rateLimitDelay
MaxTime == StartTime + MaxTicks * TickMs

VARIABLES
    now,              \* Date.now()
    lastRequestTime,  \* GitHubAgent.lastRequestTime, shared by all calls
    inbound,          \* per call: the envelope of the HTTP request, with the
                      \*   events the for loop has read from it so far
    pc,               \* per call: where processEnvelope stands
    idx,              \* per call: position of the for loop in inEnvelope.events
    responseEvents,   \* per call: the responseEvents array
    wakeAt,           \* per call: when the setTimeout of _rateLimit is due
    outEnvelope,      \* per call: the envelope processEnvelope returned
    log,              \* history, per call: the steps taken, in order
    lastFetchTime,    \* history: when the latest fetch was issued
    minFetchGap,      \* history: the smallest time between two fetches
    settled,          \* per call: the outcome of its fetch, once it has settled
    data,             \* analysis runs: the body response.json() delivered
    result,           \* analysis runs: what _searchGitHub renders from data
    queryIn,          \* analysis runs: the argument of _isTechQuery
    isTech            \* analysis runs: what _isTechQuery returned for it

\* The agent and its calls.
agentVars == << now, lastRequestTime, inbound, pc, idx, responseEvents, wakeAt,
                outEnvelope, log, lastFetchTime, minFetchGap, settled >>
\* The inputs and outputs of the pure functions, run on their own.
analysisVars == << data, result, queryIn, isTech >>

vars == << now, lastRequestTime, inbound, pc, idx, responseEvents, wakeAt,
           outEnvelope, log, lastFetchTime, minFetchGap, settled,
           data, result, queryIn, isTech >>

\* The events of the envelope that the loop has read so far.
Events(c) == inbound[c][1].events
\* The events an envelope is made of: any event of EventPool in the runs of
\* one request, the events of SearchPool in the concurrent runs.
Pool == IF \E c \in Calls : pc[c] = "absent" THEN EventPool ELSE SearchPool
Sender(c) == inbound[c][1].sender.speakerUri

\* ------------------------------------------------------- processEnvelope
\* AddressedToMe without the serviceUrl alternative.
AddressedBySpeakerOnly(event) ==
    \/ event.to = None
    \/ event.to[1].speakerUri = Some(speakerUri)

\* !event.to || event.to.speakerUri === this.speakerUri
\*           || event.to.serviceUrl === this.serviceUrl
\* AddressedToMe that takes every event as addressed to the agent.
AddressedToAnyone(event) == TRUE

AddressedToMe(event) ==
    \/ event.to = None
    \/ event.to[1].speakerUri = Some(speakerUri)
    \/ event.to[1].serviceUrl = Some(serviceUrl)

IsUtteranceEvent(event) == event.eventType = "utterance"

\* The branch the loop body takes for an event.
Route(event) ==
    IF AddressedToMe(event) /\ IsUtteranceEvent(event) THEN "utterance"
    ELSE IF AddressedToMe(event) /\ event.eventType = "getManifests" THEN "manifest"
    ELSE "ignore"

\* event.parameters?.dialogEvent?.features?.text?.tokens
TokensOf(event) ==
    LET p == event.parameters IN
    IF p = None THEN None ELSE
    LET d == p[1].dialogEvent IN
    IF d = None THEN None ELSE
    LET f == d[1].features IN
    IF f = None THEN None ELSE
    LET t == f[1].text IN
    IF t = None THEN None ELSE t[1].tokens

\* HasTokens testing only that tokens is there.
HasTokensField(event) == TokensOf(event) # None

\* tokens?.length is truthy
HasTokens(event) ==
    TokensOf(event) # None /\ Len(TokensOf(event)[1].elems) > 0

\* tokens.map(token => token.value) throws a TypeError: tokens has no map,
\* or a token is null.
ExtractionThrows(event) ==
    LET t == TokensOf(event)[1] IN
    \/ ~t.isArray
    \/ \E i \in 1..Len(t.elems) : t.elems[i] = NullToken

\* tokens.map(token => token.value).join('')
Technology(event) ==
    LET elems == TokensOf(event)[1].elems
    IN  Join([i \in 1..Len(elems) |-> elems[i][1].value])

\* _isTechQuery on each query that an event of the pools carries, evaluated
\* once.
PoolQueries ==
    { Technology(e) : e \in { x \in EventPool \cup SearchPool :
                                HasTokens(x) /\ ~ExtractionThrows(x) } }
IsTechQueryOf == [query \in PoolQueries |-> IsTechQuery(query)]

\* Caught with no catch block.
CaughtNothing(r) == r

\* The catch block of _handleTechQuery: whatever the try block throws becomes
\* the apology reply.
Caught(r) ==
    IF r.threw THEN [r EXCEPT !.threw = FALSE, !.search = FALSE, !.text = ApologyText]
    ELSE r

\* TechQueryAttempt without the _isTechQuery filter.
TechQueryAttemptUnfiltered(event) ==
    IF ~HasTokens(event)
    THEN [search |-> FALSE, classified |-> FALSE, threw |-> FALSE, text |-> NeedNameText]
    ELSE IF ExtractionThrows(event)
    THEN [search |-> FALSE, classified |-> FALSE, threw |-> TRUE, text |-> ""]
    ELSE [search |-> TRUE, classified |-> FALSE, threw |-> FALSE, text |-> ""]

\* The try block of _handleTechQuery up to its await: the reply it returns
\* at once, the error it throws, or the decision to search.  classified:
\* _isTechQuery was called.
TechQueryAttempt(event) ==
    IF ~HasTokens(event)
    THEN [search |-> FALSE, classified |-> FALSE, threw |-> FALSE, text |-> NeedNameText]
    ELSE IF ExtractionThrows(event)
    THEN [search |-> FALSE, classified |-> FALSE, threw |-> TRUE, text |-> ""]
    ELSE IF ~IsTechQueryOf[Technology(event)]
    THEN [search |-> FALSE, classified |-> TRUE, threw |-> FALSE, text |-> DomainText]
    ELSE [search |-> TRUE, classified |-> TRUE, threw |-> FALSE, text |-> ""]

\* _handleTechQuery up to its await, catch block included.
TechQueryDecision(event) == Caught(TechQueryAttempt(event))

\* createTextUtterance({speakerUri, text, to: {speakerUri: sender}}); inReplyTo
\* is history: the position of the inbound event answered.
\* TextUtterance addressed to the agent itself.
TextUtteranceToSelf(c, text) ==
    [eventType |-> "utterance", to |-> speakerUri, text |-> text,
     inReplyTo |-> idx[c]]

TextUtterance(c, text) ==
    [eventType |-> "utterance", to |-> Sender(c), text |-> text,
     inReplyTo |-> idx[c]]

PublishManifests(c) ==
    [eventType |-> "publishManifests", to |-> Sender(c), text |-> ManifestText,
     inReplyTo |-> idx[c]]

\* Push at the front of the array.
PushFront(events, reply) == << reply >> \o events

\* responseEvents.push(responseEvent)
Push(events, reply) == Append(events, reply)

\* OutEnvelope with the schema version written out instead of copied.
OutEnvelopeFixedSchema(c) ==
    [schema |-> [version |-> "1.0.0"],
     conversation |-> [id |-> inbound[c][1].conversation.id],
     sender |-> [speakerUri |-> speakerUri, serviceUrl |-> serviceUrl],
     events |-> responseEvents[c]]

\* new Envelope({schema, conversation, sender, events: responseEvents})
OutEnvelope(c) ==
    [schema |-> [version |-> inbound[c][1].schema.version],
     conversation |-> [id |-> inbound[c][1].conversation.id],
     sender |-> [speakerUri |-> speakerUri, serviceUrl |-> serviceUrl],
     events |-> responseEvents[c]]

\* ------------------------------------------------------------ _rateLimit
\* WaitTime of a rate limiter that never waits.
NoWaitTime(t, last) == 0

\* waitTime = rateLimitDelay - (now - lastRequestTime)
WaitTime(t, last) == rateLimitDelay - (t - last)

\* RecordRequestTime of a rate limiter that returns without writing.
RecordNothing == UNCHANGED lastRequestTime

\* this.lastRequestTime = Date.now(), the last statement of _rateLimit.
RecordRequestTime == lastRequestTime' = now

\* ---------------------------------------------------------- _searchGitHub
\* What _searchGitHub does with the outcome of its fetch: return a string, or
\* throw (a failed status, any rejection whose message lacks 'timeout').
SearchResult(o) ==
    IF o.kind = "response" /\ o.ok
    THEN IF o.items = None \/ Len(o.items[1]) = 0
         THEN [search |-> FALSE, threw |-> FALSE, text |-> NoReposText]
         ELSE [search |-> FALSE, threw |-> FALSE, text |-> ReportText]
    ELSE IF o.kind = "reject" /\ o.msgHasTimeout
    THEN [search |-> FALSE, threw |-> FALSE, text |-> TimeoutText]
    ELSE [search |-> FALSE, threw |-> TRUE, text |-> ""]

\* _handleTechQuery after the await: the result of _searchGitHub as the
\* reply, or the apology of the catch block.
SearchReply(o) == Caught(SearchResult(o))

\* ---------------------------------------------------------------- actions
Mark(c, op) == [ev |-> idx[c], op |-> op]
Logged(c, ops) == log[c] \o [k \in 1..Len(ops) |-> Mark(c, ops[k])]

\* History of the fetches issued: the time of this one, and the smallest
\* distance between any two so far (fetches are issued in time order).
NoteFetch ==
    /\ lastFetchTime' = Some(now)
    /\ minFetchGap' =
          IF lastFetchTime = None THEN minFetchGap
          ELSE IF minFetchGap = None \/ now - lastFetchTime[1] < minFetchGap[1]
          THEN Some(now - lastFetchTime[1])
          ELSE minFetchGap

\* app.post('/') hands the validated envelope to processEnvelope.
Receive(c) ==
    /\ pc[c] = "idle"
    /\ pc' = [pc EXCEPT ![c] = "loop"]
    /\ UNCHANGED << now, lastRequestTime, inbound, idx, responseEvents, wakeAt,
                    outEnvelope, log, lastFetchTime, minFetchGap, settled >>
    /\ UNCHANGED analysisVars

\* NextIndex that stays on the event: the event is handled again.
SameIndex(i) == i

\* The loop moves to the next event.
NextIndex(i) == i + 1

\* One iteration of the for loop, up to the point where it suspends (the
\* timer of _rateLimit, or the fetch) or finishes the event.  The loop never
\* looks ahead, so the envelope's events are drawn as the loop reads them: an
\* event at a position already read is the one read before.
ProcessEvent(c) ==
    /\ pc[c] = "loop"
    /\ idx[c] <= MaxEvents
    /\ \E event \in (IF idx[c] <= Len(Events(c)) THEN {Events(c)[idx[c]]} ELSE Pool) :
       LET route == Route(event)
           d     == TechQueryDecision(event)
           wait  == WaitTime(now, lastRequestTime)
       IN
       /\ IF route = "utterance" /\ d.threw
          THEN \* the await of _handleTechQuery rethrows: processEnvelope rejects
               /\ pc' = [pc EXCEPT ![c] = "rejected"]
               /\ log' = [log EXCEPT ![c] = Logged(c, <<"begin">>)]
               /\ UNCHANGED << idx, responseEvents, wakeAt, lastRequestTime,
                               lastFetchTime, minFetchGap >>
          ELSE IF route = "utterance" /\ d.search
          THEN \* _searchGitHub: await this._rateLimit(), then fetch
               /\ UNCHANGED << idx, responseEvents >>
               /\ IF wait > 0
                  THEN /\ pc' = [pc EXCEPT ![c] = "waiting"]
                       /\ wakeAt' = [wakeAt EXCEPT ![c] = now + wait]
                       /\ log' = [log EXCEPT ![c] =
                                    Logged(c, <<"begin", "classify", "rateLimit">>)]
                       /\ UNCHANGED << lastRequestTime, lastFetchTime, minFetchGap >>
                  ELSE /\ pc' = [pc EXCEPT ![c] = "fetching"]
                       /\ RecordRequestTime
                       /\ log' = [log EXCEPT ![c] =
                                    Logged(c, <<"begin", "classify", "rateLimit",
                                                "rateLimited", "fetch">>)]
                       /\ NoteFetch
                       /\ UNCHANGED wakeAt
          ELSE /\ idx' = [idx EXCEPT ![c] = NextIndex(idx[c])]
               /\ responseEvents' = [responseEvents EXCEPT ![c] =
                     IF route = "utterance" THEN Push(@, TextUtterance(c, d.text))
                     ELSE IF route = "manifest" THEN Push(@, PublishManifests(c))
                     ELSE @]
               /\ log' = [log EXCEPT ![c] =
                     IF route = "utterance" /\ d.classified
                     THEN Logged(c, <<"begin", "classify", "end">>)
                     ELSE Logged(c, <<"begin", "end">>)]
               /\ UNCHANGED << pc, wakeAt, lastRequestTime, lastFetchTime, minFetchGap >>
       /\ inbound' = [inbound EXCEPT ![c] =
             IF idx[c] <= Len(Events(c)) THEN @
             ELSE Some([@[1] EXCEPT !.events = Append(@, event)])]
    /\ UNCHANGED << now, outEnvelope, settled >>
    /\ UNCHANGED analysisVars

\* TimerDue of a timer whose promise is never resolved.
TimerNeverDue(c) == FALSE

\* setTimeout fires no earlier than asked.
TimerDue(c) == now >= wakeAt[c]

\* The timer of _rateLimit fires: lastRequestTime = Date.now(), and
\* _searchGitHub issues its fetch.
TimerFires(c) ==
    /\ pc[c] = "waiting"
    /\ TimerDue(c)
    /\ pc' = [pc EXCEPT ![c] = "fetching"]
    /\ RecordRequestTime
    /\ log' = [log EXCEPT ![c] = Logged(c, <<"rateLimited", "fetch">>)]
    /\ NoteFetch
    /\ wakeAt' = [wakeAt EXCEPT ![c] = 0]
    /\ UNCHANGED << now, inbound, idx, responseEvents, outEnvelope, settled >>
    /\ UNCHANGED analysisVars

\* The awaited fetch (or response.json()) settles with some outcome.
FetchSettles(c) ==
    /\ pc[c] = "fetching"
    /\ \E o \in FetchOutcomes : settled' = [settled EXCEPT ![c] = Some(o)]
    /\ pc' = [pc EXCEPT ![c] = "settled"]
    /\ UNCHANGED << now, lastRequestTime, inbound, idx, responseEvents, wakeAt,
                    outEnvelope, log, lastFetchTime, minFetchGap >>
    /\ UNCHANGED analysisVars

\* _searchGitHub resumes with the outcome; it and _handleTechQuery turn it
\* into the reply, which the loop pushes.
FetchCompletes(c) ==
    /\ pc[c] = "settled"
    /\ LET r == SearchReply(settled[c][1]) IN
       IF r.threw
       THEN /\ pc' = [pc EXCEPT ![c] = "rejected"]
            /\ log' = [log EXCEPT ![c] = Logged(c, <<"response">>)]
            /\ UNCHANGED << idx, responseEvents >>
       ELSE /\ responseEvents' = [responseEvents EXCEPT ![c] =
                  Push(@, TextUtterance(c, r.text))]
            /\ idx' = [idx EXCEPT ![c] = NextIndex(idx[c])]
            /\ pc' = [pc EXCEPT ![c] = "loop"]
            /\ log' = [log EXCEPT ![c] = Logged(c, <<"response", "end">>)]
    /\ settled' = [settled EXCEPT ![c] = None]
    /\ UNCHANGED << now, lastRequestTime, inbound, wakeAt, outEnvelope,
                    lastFetchTime, minFetchGap >>
    /\ UNCHANGED analysisVars

\* The loop is over: processEnvelope returns the outbound envelope.
ReturnEnvelope(c) ==
    /\ pc[c] = "loop"
    /\ idx[c] > Len(Events(c))
    /\ outEnvelope' = [outEnvelope EXCEPT ![c] = Some(OutEnvelope(c))]
    /\ pc' = [pc EXCEPT ![c] = "done"]
    /\ UNCHANGED << now, lastRequestTime, inbound, idx, responseEvents, wakeAt,
                    log, lastFetchTime, minFetchGap, settled >>
    /\ UNCHANGED analysisVars

\* Time passes while a call is suspended in an await (the timer or the
\* fetch); the synchronous code in between runs to completion on one clock
\* reading.  Past MaxTime time passes only while a timer is still to fire.
Tick ==
    /\ \E c \in Calls : pc[c] \in {"waiting", "fetching"}
    /\ \/ now < MaxTime
       \/ \E c \in Calls : pc[c] = "waiting" /\ now < wakeAt[c]
    /\ now' = now + TickMs
    /\ UNCHANGED << lastRequestTime, inbound, pc, idx, responseEvents, wakeAt,
                    outEnvelope, log, lastFetchTime, minFetchGap, settled >>
    /\ UNCHANGED analysisVars

Next ==
    \/ \E c \in Calls : Receive(c)
    \/ \E c \in Calls : ProcessEvent(c)
    \/ \E c \in Calls : TimerFires(c)
    \/ \E c \in Calls : FetchSettles(c)
    \/ \E c \in Calls : FetchCompletes(c)
    \/ \E c \in Calls : ReturnEnvelope(c)
    \/ Tick

\* ---------------------------------------------------------- initial states
InitAgent ==
    /\ now = StartTime
    /\ lastRequestTime = 0
    /\ idx = [c \in Calls |-> 1]
    /\ responseEvents = [c \in Calls |-> << >>]
    /\ wakeAt = [c \in Calls |-> 0]
    /\ outEnvelope = [c \in Calls |-> None]
    /\ log = [c \in Calls |-> << >>]
    /\ lastFetchTime = None
    /\ minFetchGap = None
    /\ settled = [c \in Calls |-> None]

\* No analysis run.
InitNoAnalysis ==
    /\ data = None
    /\ result = None
    /\ queryIn = None
    /\ isTech = None

\* One request, with any header; its events are any of EventPool.
Init ==
    /\ InitAgent
    /\ InitNoAnalysis
    /\ \E h \in Headers :
          inbound = [c \in Calls |-> IF c = 1 THEN Some(Envelope(h, << >>)) ELSE None]
    /\ pc = [c \in Calls |-> IF c = 1 THEN "idle" ELSE "absent"]

\* MaxCalls requests, which may overlap.
InitConcurrent ==
    /\ InitAgent
    /\ InitNoAnalysis
    /\ inbound \in [Calls -> { Some(Envelope(h, << >>)) : h \in SearchHeaders }]
    /\ pc = [c \in Calls |-> "idle"]

Spec == Init /\ [][Next]_vars

\* Node's event loop runs every callback that is ready: a received request,
\* a due timer, a settled fetch; and time passes.
Fairness ==
    /\ WF_vars(Tick)
    /\ \A c \in Calls :
          /\ WF_vars(Receive(c))
          /\ WF_vars(ProcessEvent(c))
          /\ WF_vars(TimerFires(c))
          /\ WF_vars(FetchCompletes(c))
          /\ WF_vars(ReturnEnvelope(c))

\* Concurrent requests; every fetch eventually settles.
SpecConcurrent ==
    /\ InitConcurrent /\ [][Next]_vars
    /\ Fairness
    /\ \A c \in Calls : WF_vars(FetchSettles(c))

\* ------------------------------------------------------------ the report
\* A repository of the search response (interface GitHubRepo).  language is
\* a string or null.  updated_at is a string: empty, unparseable, or a
\* timestamp, given by its age in half days when the report is rendered
\* (negative: a timestamp ahead of the agent's clock).
Stamp(age) == [given |-> TRUE, valid |-> TRUE, age |-> age]
NoStamp == [given |-> FALSE, valid |-> FALSE, age |-> 0]
BadStamp == [given |-> TRUE, valid |-> FALSE, age |-> 0]

Repo(name, stars, forks, language, updated) ==
    [name |-> name, stargazers_count |-> stars, forks_count |-> forks,
     language |-> language, updated_at |-> updated]

\* The body of a search response (interface GitHubSearchResponse); items may
\* be missing.
Body(totalCount, items) == [total_count |-> totalCount, items |-> items]

RECURSIVE Sum(_)
Sum(ns) == IF Len(ns) = 0 THEN 0 ELSE Head(ns) + Sum(Tail(ns))

\* Math.round of the quotient of two non-negative integers: halves go up.
RoundDiv(a, b) == (2 * a + b) \div (2 * b)

\* _formatRepositoryData: the heading with the number of repositories, and a
\* line per repository.
FormatRepositoryData(repositories) ==
    << [section |-> "listing",
        top |-> Len(repositories),
        lines |-> [k \in 1..Len(repositories) |->
                     [index |-> k,
                      name |-> repositories[k].name,
                      language |-> IF repositories[k].language \in {None, Some("")}
                                   THEN "Unknown"
                                   ELSE repositories[k].language[1]]]] >>

\* AdoptionLevel with the thresholds as inclusive lower bounds.
AdoptionLevelInclusive(totalCount) ==
    IF totalCount >= 50000 THEN "Very High"
    ELSE IF totalCount >= 10000 THEN "High"
    ELSE IF totalCount >= 1000 THEN "Moderate"
    ELSE IF totalCount >= 100 THEN "Emerging"
    ELSE "Niche"

\* The adoption level of _analyzeTechnologyTrends.
AdoptionLevel(totalCount) ==
    IF totalCount > 50000 THEN "Very High"
    ELSE IF totalCount > 10000 THEN "High"
    ELSE IF totalCount > 1000 THEN "Moderate"
    ELSE IF totalCount > 100 THEN "Emerging"
    ELSE "Niche"

\* AvgStars that rounds down.
AvgStarsFloor(items) ==
    Sum([k \in 1..Len(items) |-> items[k].stargazers_count]) \div Len(items)

\* avgStars: Math.round(totalStars / items.length).
AvgStars(items) ==
    RoundDiv(Sum([k \in 1..Len(items) |-> items[k].stargazers_count]), Len(items))

\* The languages object after the forEach: a count per language, the keys in
\* the order in which they were first set.  A null or empty language is
\* skipped.
RECURSIVE Languages(_)
Languages(items) ==
    IF Len(items) = 0 THEN << >>
    ELSE LET before == Languages(SubSeq(items, 1, Len(items) - 1))
             repo == items[Len(items)]
         IN  IF repo.language \in {None, Some("")} THEN before
             ELSE IF \E k \in 1..Len(before) : before[k].lang = repo.language[1]
             THEN [k \in 1..Len(before) |->
                     IF before[k].lang = repo.language[1]
                     THEN [before[k] EXCEPT !.count = @ + 1]
                     ELSE before[k]]
             ELSE Append(before, [lang |-> repo.language[1], count |-> 1])

\* SortByCount that puts an entry before the entries of equal count.
RECURSIVE SortByCountUnstable(_)
SortByCountUnstable(entries) ==
    IF Len(entries) = 0 THEN << >>
    ELSE LET sorted == SortByCountUnstable(SubSeq(entries, 1, Len(entries) - 1))
             e == entries[Len(entries)]
             ahead == SelectSeq(sorted, LAMBDA x : x.count > e.count)
             behind == SelectSeq(sorted, LAMBDA x : x.count <= e.count)
         IN  ahead \o << e >> \o behind

\* entries.sort(([,a], [,b]) => b - a): descending by count; the sort is
\* stable, so entries of equal count keep their order.
RECURSIVE SortByCount(_)
SortByCount(entries) ==
    IF Len(entries) = 0 THEN << >>
    ELSE LET sorted == SortByCount(SubSeq(entries, 1, Len(entries) - 1))
             e == entries[Len(entries)]
             ahead == SelectSeq(sorted, LAMBDA x : x.count >= e.count)
             behind == SelectSeq(sorted, LAMBDA x : x.count < e.count)
         IN  ahead \o << e >> \o behind

\* topLanguages: .slice(0, 3) of the sorted entries.
TopLanguages(items) ==
    LET sorted == SortByCount(Languages(items))
    IN  SubSeq(sorted, 1, IF Len(sorted) < 3 THEN Len(sorted) ELSE 3)

\* _analyzeTechnologyTrends: nothing for no items; else the adoption section.
\* The line of popular languages is left out when no item has a language.
AnalyzeTechnologyTrends(d) ==
    LET items == d.items[1] IN
    IF Len(items) = 0 THEN << >>
    ELSE << [section |-> "adoption",
             totalCount |-> d.total_count,
             adoptionLevel |-> AdoptionLevel(d.total_count),
             avgStars |-> AvgStars(items),
             totalStars |-> Sum([k \in 1..Len(items) |-> items[k].stargazers_count]),
             totalForks |-> Sum([k \in 1..Len(items) |-> items[k].forks_count]),
             popular |-> IF Len(Languages(items)) > 0
                         THEN Some(TopLanguages(items)) ELSE None] >>

\* daysAgo: Math.floor of the age in days (the age is in half days).
DaysAgo(updated) == updated.age \div 2

\* An empty updated_at is skipped; an unparseable one gives NaN, which
\* passes neither comparison.
UpdatedWithin(repo, days) ==
    /\ repo.updated_at.given
    /\ repo.updated_at.valid
    /\ DaysAgo(repo.updated_at) <= days

VeryRecentUpdates(repositories) ==
    Cardinality({ k \in 1..Len(repositories) : UpdatedWithin(repositories[k], 30) })
RecentUpdates(repositories) ==
    Cardinality({ k \in 1..Len(repositories) : UpdatedWithin(repositories[k], 90) })

\* ActivityLevel with the ratios compared by >=.
ActivityLevelInclusive(veryRecentUpdates, recentUpdates, n) ==
    IF 10 * veryRecentUpdates >= 7 * n THEN "Very Active"
    ELSE IF 10 * recentUpdates >= 5 * n THEN "Active"
    ELSE IF 10 * recentUpdates >= 3 * n THEN "Moderate"
    ELSE "Low"

\* activityLevel.  The code compares the double k / n with the literals 0.7,
\* 0.5 and 0.3; for counts this small the rounded quotient is above the
\* rounded literal exactly when k / n is above the fraction, so the
\* comparisons are made on integers.
ActivityLevel(veryRecentUpdates, recentUpdates, n) ==
    IF 10 * veryRecentUpdates > 7 * n THEN "Very Active"
    ELSE IF 10 * recentUpdates > 5 * n THEN "Active"
    ELSE IF 10 * recentUpdates > 3 * n THEN "Moderate"
    ELSE "Low"

\* _analyzeRecentActivity: nothing for no repositories; else the activity
\* section.
AnalyzeRecentActivity(repositories) ==
    IF Len(repositories) = 0 THEN << >>
    ELSE LET level == ActivityLevel(VeryRecentUpdates(repositories),
                                    RecentUpdates(repositories), Len(repositories))
         IN  << [section |-> "activity",
                 veryRecentUpdates |-> VeryRecentUpdates(repositories),
                 recentUpdates |-> RecentUpdates(repositories),
                 of |-> Len(repositories),
                 activityLevel |-> level,
                 health |-> IF level \in {"Very Active", "Active"}
                            THEN "Strong" ELSE "Moderate"] >>

\* RenderResult that renders the sections whatever the items are.
RenderResultUnguarded(d) ==
    LET items == IF d.items = None THEN << >> ELSE d.items[1] IN
    << [section |-> "trends"] >>
    \o FormatRepositoryData(items)
    \o AnalyzeTechnologyTrends(Body(d.total_count, Some(items)))
    \o AnalyzeRecentActivity(items)

\* _searchGitHub from response.json() on: the message for no items, or the
\* heading followed by the three sections.
RenderResult(d) ==
    IF d.items = None \/ Len(d.items[1]) = 0
    THEN << [section |-> "no repositories found"] >>
    ELSE << [section |-> "trends"] >>
         \o FormatRepositoryData(d.items[1])
         \o AnalyzeTechnologyTrends(d)
         \o AnalyzeRecentActivity(d.items[1])

\* ------------------------------------------------- the analysis runs
\* Repositories for the responses.  Ages: 30.5 days (30 whole days), 31
\* days, 90.5 days, 91 days, half a day ahead of the clock.
RepoPool ==
    { Repo("a", 100, 10, Some("Go"), Stamp(61)),
      Repo("b", 200, 20, Some("Go"), Stamp(62)),
      Repo("c", 300, 30, Some("Rust"), Stamp(181)),
      Repo("d", 1, 0, Some("C"), Stamp(182)),
      Repo("e", 2, 1, Some("TypeScript"), Stamp(-1)),
      Repo("f", 0, 0, None, NoStamp),
      Repo("g", 5, 2, Some(""), BadStamp) }

TotalCounts == {0, 3, 100, 101, 1000, 1001, 10000, 10001, 12000, 50000, 50001}

\* Every list of up to n repositories.
ItemLists(n) == UNION { [1..k -> RepoPool] : k \in 0..n }

\* k times one repository, then m times another.
TwoRuns(a, k, b, m) == [i \in 1..(k + m) |-> IF i <= k THEN a ELSE b]
RunLists ==
    { TwoRuns(a, k, b, m) : a \in RepoPool, b \in RepoPool,
                            k \in 1..MaxRun, m \in 0..MaxRun }

\* The bodies: every total_count with the short lists and with missing
\* items; one total_count with the longer lists.
Bodies ==
    { Body(t, items) : t \in TotalCounts,
                       items \in {None} \cup { Some(l) : l \in ItemLists(2) } }
    \cup { Body(12000, Some(l)) : l \in ItemLists(MaxItems) \cup RunLists }

QueryChars == {"g", "o", "G", "O", " ", "x"}
NamedQueries ==
    { <<"T","r","e","n","d","i","n","g"," ","J","S"," ","t","o","o","l","s">>,
      <<"c","o","o","k","i","n","g"," ","r","e","c","i","p","e","s">>,
      <<"R","U","S","T">>,
      <<"O","p","e","n"," ","S","o","u","r","c","e">>,
      <<"o","p","e","n","s","o","u","r","c","e">>,
      <<"m","y","S","t","a","c","K","s">> }
Queries ==
    NamedQueries \cup UNION { [1..k -> QueryChars] : k \in 0..MaxQueryLen }

\* The rendering part of _searchGitHub, applied to a body.
RenderSearch ==
    /\ data # None
    /\ result = None
    /\ result' = Some(RenderResult(data[1]))
    /\ UNCHANGED << data, queryIn, isTech >>
    /\ UNCHANGED agentVars

\* _isTechQuery, applied to a query.
ClassifyQuery ==
    /\ queryIn # None
    /\ isTech = None
    /\ isTech' = Some(IsTechQuery(queryIn[1]))
    /\ UNCHANGED << data, result, queryIn >>
    /\ UNCHANGED agentVars

NextAnalysis ==
    \/ RenderSearch
    \/ ClassifyQuery

\* No request: a body to render, or a query to classify.
InitAnalysis ==
    /\ InitAgent
    /\ inbound = [c \in Calls |-> None]
    /\ pc = [c \in Calls |-> "absent"]
    /\ result = None
    /\ isTech = None
    /\ \/ data \in { Some(b) : b \in Bodies } /\ queryIn = None
       \/ data = None /\ queryIn \in { Some(q) : q \in Queries }

SpecAnalysis == InitAnalysis /\ [][NextAnalysis]_vars

\* ------------------------------------------------------------- properties
\* The steps logged for event i of call c, in order.
OpsOf(c, i) ==
    LET sel == SelectSeq(log[c], LAMBDA m : m.ev = i)
    IN  [k \in 1..Len(sel) |-> sel[k].op]

\* The positions in the reply list rs of the replies to inbound event i.
RepliesTo(rs, i) == { k \in 1..Len(rs) : rs[k].inReplyTo = i }

HasOp(c, i, op) == \E k \in 1..Len(log[c]) : log[c][k] = [ev |-> i, op |-> op]

CountOp(c, i, op) ==
    Cardinality({ k \in 1..Len(log[c]) : log[c][k] = [ev |-> i, op |-> op] })

Arrived(c) == pc[c] # "absent"

\* The claims' own reading of an event, written from their words.
ToTheAgent(event) ==
    \/ event.to = None
    \/ event.to[1].speakerUri = Some(speakerUri)
    \/ event.to[1].serviceUrl = Some(serviceUrl)

UtteranceToTheAgent(event) == event.eventType = "utterance" /\ ToTheAgent(event)

ZeroTokenParameters ==
    { NoParameters, NoDialogEvent, NoFeaturesField, NoTextField, NoTokensField,
      WithTokens(TokEmpty) }

MalformedParameters == { WithTokens(TokNull), WithTokens(TokString) }

OutOfScopeParameters == { WithTokens(TokCooking), WithTokens(TokUndefinedValue) }

InScopeParameters == { WithTokens(TokRust), WithTokens(TokTrending) }

\* C1: any two outbound search calls, of whichever processEnvelope calls, are
\* at least rateLimitDelay apart.
C1_FetchesSpaced ==
    minFetchGap = None \/ minFetchGap[1] >= rateLimitDelay

\* C2: the envelope processEnvelope returns carries the conversation id and
\* the schema version of the inbound envelope.
C2_SameConversationAndSchema ==
    \A c \in Calls :
        outEnvelope[c] # None =>
            /\ outEnvelope[c][1].conversation.id = inbound[c][1].conversation.id
            /\ outEnvelope[c][1].schema.version = inbound[c][1].schema.version

C2_Witness ==
    \E c \in Calls :
        /\ outEnvelope[c] # None
        /\ inbound[c][1].schema.version = "1.1.0"
        /\ inbound[c][1].conversation.id = "conv-2"
        /\ \E k \in 1..Len(outEnvelope[c][1].events) :
              outEnvelope[c][1].events[k].text = ApologyText

\* C3: no failure while handling an event aborts the envelope: the call never
\* rejects, and once it has returned every event was processed, a malformed
\* utterance was answered by the apology and every well-formed utterance has
\* its reply in the returned envelope.
C3_NoEventAbortsEnvelope ==
    \A c \in Calls : Arrived(c) =>
        /\ pc[c] # "rejected"
        /\ pc[c] = "done" =>
              \A i \in 1..Len(Events(c)) :
                  LET e   == Events(c)[i]
                      out == outEnvelope[c][1].events
                  IN  /\ HasOp(c, i, "begin") /\ HasOp(c, i, "end")
                      /\ UtteranceToTheAgent(e) =>
                            Cardinality(RepliesTo(out, i)) = 1
                      /\ UtteranceToTheAgent(e) /\ e.parameters \in MalformedParameters =>
                            \A k \in RepliesTo(out, i) : out[k].text = ApologyText

C3_Witness ==
    \E c \in Calls :
        /\ pc[c] = "done"
        /\ Len(Events(c)) = 2
        /\ Events(c)[1] = Event("utterance", None, WithTokens(TokNull))
        /\ Events(c)[2] = Event("utterance", None, WithTokens(TokRust))
        /\ Len(outEnvelope[c][1].events) = 2
        /\ outEnvelope[c][1].events[1].text = ApologyText
        /\ outEnvelope[c][1].events[2].text = ReportText

\* C4: an utterance to the agent with zero text tokens (or no features, text
\* or tokens at all) gets exactly one reply, the need-a-name prompt, and its
\* handling calls neither the classifier nor the rate limiter nor the search.
C4_ZeroTokensPrompt ==
    \A c \in Calls : Arrived(c) =>
        \A i \in 1..Len(Events(c)) :
            LET e == Events(c)[i] IN
            UtteranceToTheAgent(e) /\ e.parameters \in ZeroTokenParameters =>
                /\ OpsOf(c, i) \in { << >>, <<"begin", "end">> }
                /\ i < idx[c] =>
                      /\ Cardinality(RepliesTo(responseEvents[c], i)) = 1
                      /\ \A k \in RepliesTo(responseEvents[c], i) :
                            responseEvents[c][k].text = NeedNameText

C4_Witness ==
    \E c \in Calls :
        /\ pc[c] = "done"
        /\ Len(Events(c)) = 2
        /\ Events(c)[1] = Event("utterance", None, WithTokens(TokEmpty))
        /\ Events(c)[2] = Event("utterance", None, NoFeaturesField)
        /\ Len(outEnvelope[c][1].events) = 2
        /\ \A k \in 1..2 : outEnvelope[c][1].events[k].text = NeedNameText

\* C5: the rate limiter and the search are reached for an utterance only if
\* _isTechQuery classified its concatenated token text in scope; a query
\* classified out of domain gets the domain-mismatch reply and no search.
C5_SearchOnlyInScope ==
    \A c \in Calls : Arrived(c) =>
        /\ \A k \in 1..Len(log[c]) :
              log[c][k].op \in {"rateLimit", "rateLimited", "fetch", "response"} =>
                  LET e == Events(c)[log[c][k].ev] IN
                  /\ UtteranceToTheAgent(e)
                  /\ e.parameters \in InScopeParameters
                  /\ IsTechQueryOf[Technology(e)]
        /\ \A i \in 1..Len(Events(c)) :
              LET e == Events(c)[i] IN
              UtteranceToTheAgent(e) /\ e.parameters \in OutOfScopeParameters =>
                  /\ ~IsTechQueryOf[Technology(e)]
                  /\ OpsOf(c, i) \in { << >>, <<"begin", "classify", "end">> }
                  /\ i < idx[c] =>
                        /\ Cardinality(RepliesTo(responseEvents[c], i)) = 1
                        /\ \A k \in RepliesTo(responseEvents[c], i) :
                              responseEvents[c][k].text = DomainText

C5_Witness ==
    \E c \in Calls :
        /\ pc[c] = "done"
        /\ Len(Events(c)) = 2
        /\ Events(c)[1] = Event("utterance", None, WithTokens(TokCooking))
        /\ Events(c)[2] = Event("utterance", None, WithTokens(TokTrending))
        /\ OpsOf(c, 1) = <<"begin", "classify", "end">>
        /\ HasOp(c, 2, "fetch")
        /\ outEnvelope[c][1].events[1].text = DomainText
        /\ outEnvelope[c][1].events[2].text = ReportText

\* C6: within one call the events are handled one after another in inbound
\* order: the handling of an event begins only when the one before it has
\* ended, and the replies are in the order of the events they answer.
C6_EventsInOrder ==
    \A c \in Calls : Arrived(c) =>
        /\ \A k \in 1..Len(log[c]) :
              IF log[c][k].op = "begin"
              THEN IF k = 1 THEN log[c][k].ev = 1
                   ELSE /\ log[c][k - 1].op = "end"
                        /\ log[c][k].ev = log[c][k - 1].ev + 1
              ELSE k > 1 /\ log[c][k].ev = log[c][k - 1].ev
        /\ \A j, k \in 1..Len(responseEvents[c]) :
              j < k => responseEvents[c][j].inReplyTo < responseEvents[c][k].inReplyTo
        /\ outEnvelope[c] # None => outEnvelope[c][1].events = responseEvents[c]

C6_Witness ==
    \E c \in Calls :
        /\ pc[c] = "done"
        /\ Len(Events(c)) = 2
        /\ HasOp(c, 1, "fetch") /\ HasOp(c, 2, "fetch")
        /\ Len(outEnvelope[c][1].events) = 2
        /\ outEnvelope[c][1].events[1].inReplyTo = 1
        /\ outEnvelope[c][1].events[2].inReplyTo = 2

\* C7: the returned envelope holds exactly one reply for every inbound event
\* that is to the agent and is an utterance or a getManifests event, and none
\* for any other event; with no such event its event list is empty.
C7_OneReplyPerAddressedEvent ==
    \A c \in Calls : Arrived(c) =>
        /\ pc[c] # "rejected"
        /\ pc[c] = "done" =>
              LET out == outEnvelope[c][1].events
                  expected == { i \in 1..Len(Events(c)) :
                                   /\ ToTheAgent(Events(c)[i])
                                   /\ Events(c)[i].eventType \in {"utterance", "getManifests"} }
              IN  /\ Len(out) = Cardinality(expected)
                  /\ \A i \in 1..Len(Events(c)) :
                        Cardinality(RepliesTo(out, i)) = IF i \in expected THEN 1 ELSE 0
                  /\ \A k \in 1..Len(out) :
                        out[k].eventType =
                            IF Events(c)[out[k].inReplyTo].eventType = "getManifests"
                            THEN "publishManifests" ELSE "utterance"

C7_Witness ==
    \E c \in Calls :
        /\ pc[c] = "done"
        /\ Len(Events(c)) = 2
        /\ Events(c)[1] = Event("getManifests", ToOther, NoParameters)
        /\ Events(c)[2] = Event("utterance", ToMeByService, WithTokens(TokRust))
        /\ Len(outEnvelope[c][1].events) = 1
        /\ outEnvelope[c][1].events[1].inReplyTo = 2

\* C8: when the search of an in-scope utterance fails, the call goes on with
\* one more reply, which is the timeout message if the failure is a timeout
\* and the apology for every other failure.
C8_TimeoutIffTimeoutReply ==
    [][\A c \in Calls :
          (pc[c] = "settled" /\ pc'[c] # "settled"
             /\ (settled[c][1].kind = "reject" \/ ~settled[c][1].ok)) =>
              /\ pc'[c] = "loop"
              /\ Len(responseEvents'[c]) = Len(responseEvents[c]) + 1
              /\ responseEvents'[c][Len(responseEvents'[c])].text =
                    IF settled[c][1].cause = "timeout" THEN TimeoutText ELSE ApologyText
      ]_vars

\* C9: no retry: at most one search request is issued for an utterance event,
\* whatever its outcome, and the event is answered by exactly one reply.
C9_NoRetry ==
    \A c \in Calls : Arrived(c) =>
        /\ \A k \in 1..Len(log[c]) :
              LET m == log[c][k] IN
              /\ m.op \in {"rateLimit", "fetch", "response"} =>
                    \A j \in 1..(k - 1) : log[c][j] # m
              /\ m.op = "response" =>
                    \E j \in 1..(k - 1) : log[c][j] = [ev |-> m.ev, op |-> "fetch"]
              /\ (m.op = "end" /\ HasOp(c, m.ev, "fetch")) =>
                    \E r \in 1..Len(responseEvents[c]) :
                        responseEvents[c][r].inReplyTo = m.ev
        /\ \A r1, r2 \in 1..Len(responseEvents[c]) :
              responseEvents[c][r1].inReplyTo = responseEvents[c][r2].inReplyTo => r1 = r2

C9_Witness ==
    \E c \in Calls :
        /\ pc[c] = "done"
        /\ Len(Events(c)) = 2
        /\ CountOp(c, 1, "fetch") = 1 /\ CountOp(c, 2, "fetch") = 1
        /\ Len(outEnvelope[c][1].events) = 2
        /\ outEnvelope[c][1].events[1].text = ApologyText
        /\ outEnvelope[c][1].events[2].text = TimeoutText

\* C10: every call returns exactly one envelope: with fetches that settle
\* and timers that fire every call eventually returns, also when calls wait
\* on the rate limiter together; the envelope once returned stays; and a
\* call does not return while a fetch of its own has not settled.
C10_EveryCallReturnsOnce ==
    /\ \A c \in Calls : <>(pc[c] = "done")
    /\ [](\A c \in Calls :
            /\ (outEnvelope[c] # None) <=> (pc[c] = "done")
            /\ pc[c] = "done" =>
                  \A i \in 1..Len(Events(c)) :
                      CountOp(c, i, "response") = CountOp(c, i, "fetch"))
    /\ [][\A c \in Calls :
            /\ outEnvelope[c] # None => outEnvelope'[c] = outEnvelope[c]
            /\ pc[c] \in {"fetching", "settled"} => pc'[c] # "done"]_vars

C10_Witness ==
    /\ \A c \in Calls : pc[c] = "done"
    /\ \A c \in Calls : \E i \in 1..Len(Events(c)) : HasOp(c, i, "fetch")
    /\ minFetchGap = Some(0)

\* C19: every reply event (the report, the need-a-name prompt, the domain
\* prompt, the timeout message, the apology, publishManifests) is addressed
\* to the speaker URI of the inbound envelope's sender, and the sender of
\* the outbound envelope is the agent's speaker URI and service URL.
C19_RepliesToTheSender ==
    \A c \in Calls : Arrived(c) =>
        /\ \A k \in 1..Len(responseEvents[c]) :
              /\ responseEvents[c][k].to = inbound[c][1].sender.speakerUri
              /\ responseEvents[c][k].text \in
                    { ReportText, NoReposText, NeedNameText, DomainText,
                      TimeoutText, ApologyText, ManifestText }
        /\ outEnvelope[c] # None =>
              /\ outEnvelope[c][1].sender =
                    [speakerUri |-> "tag:openfloor-research.com,2025:github-agent",
                     serviceUrl |-> "http://localhost:8080"]
              /\ \A k \in 1..Len(outEnvelope[c][1].events) :
                    outEnvelope[c][1].events[k].to = inbound[c][1].sender.speakerUri

C19_Witness ==
    \E c \in Calls :
        /\ outEnvelope[c] # None
        /\ inbound[c][1].sender.speakerUri = "tag:example.com,2025:alice"
        /\ Len(outEnvelope[c][1].events) = 2
        /\ outEnvelope[c][1].events[1].eventType = "publishManifests"
        /\ outEnvelope[c][1].events[2].text = TimeoutText
        /\ outEnvelope[c][1].events[2].to = "tag:example.com,2025:alice"

\* ------------------------------------- properties of the rate limiter
\* Call c issues a fetch in this step.
IssuesFetch(c) ==
    /\ Len(log'[c]) > Len(log[c])
    /\ log'[c][Len(log'[c])].op = "fetch"

\* C17: every fetch is preceded, in the same _searchGitHub call, by a
\* rate-limiter call that has returned for it, and that has set
\* lastRequestTime when the fetch is issued.
C17_FetchAfterRateLimit ==
    /\ [](\A c \in Calls : \A k \in 1..Len(log[c]) :
            log[c][k].op = "fetch" =>
                /\ k > 2
                /\ log[c][k - 1] = [ev |-> log[c][k].ev, op |-> "rateLimited"]
                /\ log[c][k - 2] = [ev |-> log[c][k].ev, op |-> "rateLimit"])
    /\ [][\A c \in Calls : IssuesFetch(c) => lastRequestTime' = now']_vars

C17_Witness ==
    \E c \in Calls :
        /\ pc[c] = "fetching"
        /\ HasOp(c, 2, "fetch")
        /\ HasOp(c, 1, "fetch")
        /\ lastRequestTime = now

\* C18: with one request (rate-limiter calls that do not overlap) a call of
\* _rateLimit returns no sooner than rateLimitDelay after the previous one
\* returned, and lastRequestTime is then the time of the return; so the
\* searches of one envelope are at least rateLimitDelay apart.
C18_SpacedWithoutOverlap ==
    /\ [][\A c \in Calls : IssuesFetch(c) =>
            /\ lastRequestTime' = now'
            /\ lastFetchTime' = Some(lastRequestTime')
            /\ lastFetchTime # None =>
                  now' - lastFetchTime[1] >= rateLimitDelay]_vars
    /\ [](minFetchGap # None => minFetchGap[1] >= rateLimitDelay)

C18_Witness ==
    \E c \in Calls :
        /\ HasOp(c, 1, "fetch")
        /\ HasOp(c, 2, "fetch")
        /\ minFetchGap = Some(rateLimitDelay)
        /\ pc[c] = "done"

\* An event that needs no search: not addressed to the agent, of a type
\* other than utterance, or an utterance with no tokens or out of scope.
NeedsNoSearch(event) ==
    \/ ~ToTheAgent(event)
    \/ event.eventType # "utterance"
    \/ event.parameters \in ZeroTokenParameters \cup OutOfScopeParameters

\* C20: lastRequestTime changes only where _rateLimit returns; a step of a
\* call changes nothing of another call; and handling a zero-token
\* utterance, an out-of-scope utterance, a getManifests event or an ignored
\* event leaves lastRequestTime as it was.
C20_OnlyRateLimitWrites ==
    [][ /\ lastRequestTime' # lastRequestTime =>
              \E c \in Calls :
                 /\ IssuesFetch(c)
                 /\ log'[c][Len(log'[c]) - 1].op = "rateLimited"
        /\ \A c \in Calls : log'[c] # log[c] =>
              /\ \A d \in Calls \ {c} :
                    /\ pc'[d] = pc[d] /\ idx'[d] = idx[d] /\ log'[d] = log[d]
                    /\ inbound'[d] = inbound[d]
                    /\ responseEvents'[d] = responseEvents[d]
                    /\ outEnvelope'[d] = outEnvelope[d]
              /\ NeedsNoSearch(inbound'[c][1].events[log'[c][Len(log'[c])].ev]) =>
                    lastRequestTime' = lastRequestTime
      ]_vars

C20_Witness ==
    \E c \in Calls :
        /\ pc[c] = "done"
        /\ Len(Events(c)) = 2
        /\ HasOp(c, 1, "fetch")
        /\ UtteranceToTheAgent(Events(c)[2])
        /\ Events(c)[2].parameters \in OutOfScopeParameters
        /\ HasOp(c, 2, "end")
        /\ lastFetchTime = Some(lastRequestTime)

\* ------------------------------------------------ properties of the report
\* A body has been rendered.
Rendered == data # None /\ result # None
\* The rendered body has at least one item.
RenderedItems == Rendered /\ data[1].items # None /\ Len(data[1].items[1]) > 0
\* The sections of the rendered result with this name.
SectionsNamed(name) == SelectSeq(result[1], LAMBDA x : x.section = name)
\* The names of the sections of the rendered result, in order.
SectionNames == [k \in 1..Len(result[1]) |-> result[1][k].section]

\* C11: for a non-empty result the adoption level follows total_count with
\* strict thresholds: above 50000 Very High, else above 10000 High, else
\* above 1000 Moderate, else above 100 Emerging, else Niche; 50000 is High
\* and 50001 is Very High.
C11_AdoptionThresholds ==
    RenderedItems =>
        LET t == data[1].total_count
            adoption == SectionsNamed("adoption")
        IN  /\ Len(adoption) = 1
            /\ adoption[1].adoptionLevel =
                  (CASE t > 50000 -> "Very High"
                     [] t <= 50000 /\ t > 10000 -> "High"
                     [] t <= 10000 /\ t > 1000 -> "Moderate"
                     [] t <= 1000 /\ t > 100 -> "Emerging"
                     [] t <= 100 -> "Niche")
            /\ t = 50000 => adoption[1].adoptionLevel = "High"
            /\ t = 50001 => adoption[1].adoptionLevel = "Very High"

C11_Witness ==
    /\ RenderedItems
    /\ data[1].total_count = 50000
    /\ SectionsNamed("adoption")[1].adoptionLevel = "High"

\* The items of the rendered body whose updated_at is a timestamp at most
\* this many whole days old (ages are in half days).
ItemsWithinDays(days) ==
    { k \in 1..Len(data[1].items[1]) :
        LET u == data[1].items[1][k].updated_at
        IN  u.given /\ u.valid /\ u.age < 2 * (days + 1) }

\* C12: for a non-empty item list, with veryRecent the items updated within
\* 30 days and recent those within 90 days (veryRecent <= recent), the
\* activity level is Very Active iff veryRecent / n > 0.7, else Active iff
\* recent / n > 0.5, else Moderate iff recent / n > 0.3, else Low; with
\* exactly 70% of the items within 30 days it is not Very Active.
C12_ActivityThresholds ==
    RenderedItems =>
        LET n == Len(data[1].items[1])
            veryRecent == Cardinality(ItemsWithinDays(30))
            recent == Cardinality(ItemsWithinDays(90))
            activity == SectionsNamed("activity")
        IN  /\ Len(activity) = 1
            /\ veryRecent <= recent
            /\ activity[1].veryRecentUpdates = veryRecent
            /\ activity[1].recentUpdates = recent
            /\ activity[1].activityLevel =
                  (CASE 10 * veryRecent > 7 * n -> "Very Active"
                     [] 10 * veryRecent <= 7 * n /\ 10 * recent > 5 * n -> "Active"
                     [] 10 * veryRecent <= 7 * n /\ 10 * recent <= 5 * n
                          /\ 10 * recent > 3 * n -> "Moderate"
                     [] 10 * veryRecent <= 7 * n /\ 10 * recent <= 3 * n -> "Low")
            /\ 10 * veryRecent = 7 * n => activity[1].activityLevel # "Very Active"

C12_Witness ==
    /\ RenderedItems
    /\ Len(data[1].items[1]) = 10
    /\ Cardinality(ItemsWithinDays(30)) = 7
    /\ SectionsNamed("activity")[1].activityLevel = "Active"

\* C13: a response without items (missing or empty, whatever total_count
\* is) renders the "no repositories found" message alone; a response with
\* items renders the listing, the adoption analysis and the activity
\* analysis, in this order.
C13_SectionsOfTheResult ==
    Rendered =>
        IF data[1].items = None \/ data[1].items = Some(<< >>)
        THEN SectionNames = << "no repositories found" >>
        ELSE SectionNames = << "trends", "listing", "adoption", "activity" >>

C13_Witness ==
    /\ Rendered
    /\ data[1].items = Some(<< >>)
    /\ data[1].total_count = 3
    /\ SectionNames = << "no repositories found" >>

\* ------------------------------------------- properties of _isTechQuery
\* Two characters are the same letter or the same character.
SameIgnoringCase(a, b) ==
    \/ a = b
    \/ \E i \in 1..Len(UpperChars) :
          {a, b} = {UpperChars[i], LowerChars[i]}

\* The keyword occurs in the text from position p on, whatever the case of
\* the text's letters.
OccursAt(text, keyword, p) ==
    /\ p + Len(keyword) - 1 <= Len(text)
    /\ \A j \in 1..Len(keyword) : SameIgnoringCase(text[p + j - 1], keyword[j])

\* C14: _isTechQuery is true iff a keyword of the list is a substring of
\* the lower-cased text, whatever the letter case of the text; "Trending JS
\* tools" is in scope, "cooking recipes" is not.
C14_InScopeIffKeyword ==
    (queryIn # None /\ isTech # None) =>
        /\ isTech[1] <=>
               \E n \in 1..Len(techIndicators) :
                  \E p \in 1..Len(queryIn[1]) :
                     OccursAt(queryIn[1], techIndicators[n], p)
        /\ queryIn[1] = <<"T","r","e","n","d","i","n","g"," ","J","S"," ",
                           "t","o","o","l","s">> => isTech[1]
        /\ queryIn[1] = <<"c","o","o","k","i","n","g"," ","r","e","c","i",
                           "p","e","s">> => ~isTech[1]

C14_Witness ==
    /\ queryIn = Some(<<"R","U","S","T">>)
    /\ isTech = Some(TRUE)

\* ------------------------------------------- properties of the languages
\* The positions of the rendered items that have this language.
ItemsInLanguage(l) ==
    { k \in 1..Len(data[1].items[1]) : data[1].items[1][k].language = Some(l) }
\* The non-empty languages of the rendered items.
LanguagesSeen ==
    { data[1].items[1][k].language[1] :
        k \in { j \in 1..Len(data[1].items[1]) :
                  data[1].items[1][j].language \notin {None, Some("")} } }
FirstSeen(l) == CHOOSE k \in ItemsInLanguage(l) : \A j \in ItemsInLanguage(l) : k <= j
\* Language l is ranked before language m: more items, or as many and seen
\* first.
RankedBefore(l, m) ==
    \/ Cardinality(ItemsInLanguage(l)) > Cardinality(ItemsInLanguage(m))
    \/ /\ Cardinality(ItemsInLanguage(l)) = Cardinality(ItemsInLanguage(m))
       /\ FirstSeen(l) < FirstSeen(m)

\* C15: the popular languages are the at most 3 languages with the most
\* items among the non-empty language fields, in descending order of count,
\* languages of equal count in the order in which they first occur.
C15_TopThreeLanguages ==
    RenderedItems =>
        LET popular == SectionsNamed("adoption")[1].popular
            shown == IF Cardinality(LanguagesSeen) < 3
                     THEN Cardinality(LanguagesSeen) ELSE 3
        IN  IF LanguagesSeen = {} THEN popular = None
            ELSE /\ popular # None
                 /\ Len(popular[1]) = shown
                 /\ \A k \in 1..shown :
                       /\ popular[1][k].lang \in LanguagesSeen
                       /\ popular[1][k].count =
                             Cardinality(ItemsInLanguage(popular[1][k].lang))
                       /\ Cardinality({ m \in LanguagesSeen :
                                          RankedBefore(m, popular[1][k].lang) }) = k - 1

C15_Witness ==
    /\ RenderedItems
    /\ Cardinality(LanguagesSeen) = 4
    /\ Len(SectionsNamed("adoption")[1].popular[1]) = 3
    /\ LET items == data[1].items[1]
           popular == SectionsNamed("adoption")[1].popular[1]
       IN  /\ items[1].language = Some("C")
           /\ popular[1].lang = "C"
           /\ popular[1].count = 1

\* ---------------------------------------- properties of the average stars
\* The stars of the rendered items, in order.
StarsOfItems ==
    [k \in 1..Len(data[1].items[1]) |-> data[1].items[1][k].stargazers_count]
\* The languages of the rendered items, in order.
LanguagesOfItems ==
    [k \in 1..Len(data[1].items[1]) |-> data[1].items[1][k].language]

\* C16: for a non-empty result the average stars are the sum of the items'
\* stars divided by their number, rounded to the nearest integer; 3 items
\* with total_count 12000, stars 100, 200, 300 and languages Go, Go, Rust
\* show adoption High, average stars 200 and Go (2) as the top language.
C16_AverageStars ==
    RenderedItems =>
        LET n == Len(data[1].items[1])
            total == Sum(StarsOfItems)
            adoption == SectionsNamed("adoption")[1]
        IN  /\ 2 * n * adoption.avgStars - n <= 2 * total
            /\ 2 * total <= 2 * n * adoption.avgStars + n
            /\ ( /\ data[1].total_count = 12000
                 /\ StarsOfItems = << 100, 200, 300 >>
                 /\ LanguagesOfItems = << Some("Go"), Some("Go"), Some("Rust") >> )
               => /\ adoption.adoptionLevel = "High"
                  /\ adoption.avgStars = 200
                  /\ adoption.popular # None
                  /\ adoption.popular[1][1] = [lang |-> "Go", count |-> 2]

C16_Witness ==
    /\ RenderedItems
    /\ data[1].total_count = 12000
    /\ StarsOfItems = << 100, 200, 300 >>
    /\ LanguagesOfItems = << Some("Go"), Some("Go"), Some("Rust") >>
    /\ SectionsNamed("adoption")[1].avgStars = 200

=============================================================================
